---- MODULE Spec2Model ----
(***************************************************************************)
(* bulloak: the recursive-descent parser of .tree files (src/parser.rs)    *)
(* and the modifier discoverer (src/modifiers.rs).                         *)
(*                                                                         *)
(* Strings are sequences of one-character strings.  The cursor `current`   *)
(* is 0-based as in the source; tokens[current + 1] is tokens.get(current).*)
(***************************************************************************)
EXTENDS Integers, Sequences, FiniteSets, TLC

VARIABLES
    text,       \* ParserI.text: the source text of the running parse
    tokens,     \* ParserI.tokens: the token slice of the running parse
    current,    \* Parser.current: the cursor (0-based)
    stack,      \* the active parse_root / _parse calls, innermost last
    pc,         \* where the pipeline is
    result,     \* the value returned by the last call that returned
    modifiers,  \* ModifierDiscoverer.modifiers
    panic,      \* "" or the panic that aborted the program
    arg,        \* to_modifier: the title passed
    ret         \* to_modifier: the string returned

vars == <<text, tokens, current, stack, pc, result, modifiers, panic, arg, ret>>

(***************************************************************************)
(* Bounds                                                                  *)
(***************************************************************************)
\* longest arbitrary token sequence
MaxLen == 3
\* deepest indentation column of a connector
MaxCol == 3
\* most connector lines of a well-formed tree
MaxLines == 3
\* longest title handed to to_modifier directly
MaxTitle == 4

(***************************************************************************)
(* Characters and strings                                                  *)
(***************************************************************************)
Space == " "
Tab == "\t"
Whitespace == {Space, Tab}

Str_when == <<"w", "h", "e", "n">>
Str_it == <<"i", "t">>
Str_word == <<"a">>
Str_tee == <<"+">>
Str_corner == <<"L">>

(***************************************************************************)
(* Tokens (tokenizer::Token, TokenKind; span::Position, Span)              *)
(***************************************************************************)
TokenKind == {"STRING", "TEE", "CORNER", "WHEN", "IT"}

IsConnector(kind) == kind \in {"TEE", "CORNER"}

Position(offset, line, column) ==
    [offset |-> offset, line |-> line, column |-> column]

Span(start, end) == [start |-> start, end |-> end]

Token(kind, lexeme, span) == [kind |-> kind, lexeme |-> lexeme, span |-> span]

\* What the parser is given before positions are assigned: a kind, a lexeme
\* and, for a connector, the column it is drawn at.
Word(kind, lexeme) == [kind |-> kind, lexeme |-> lexeme, col |-> 0]
Glyph(kind, col) ==
    [kind |-> kind, lexeme |-> IF kind = "TEE" THEN Str_tee ELSE Str_corner,
     col |-> col]

\* The start of a token laid out after the tokens `acc`: a connector opens a
\* new line at its column, the word after a connector follows the "-- "
\* drawn after the glyph, any other word follows a single space.
StartOf(p, acc) ==
    IF acc = <<>>
    THEN IF IsConnector(p.kind) THEN Position(p.col - 1, 1, p.col)
                                ELSE Position(0, 1, 1)
    ELSE LET prev == acc[Len(acc)] IN
         IF IsConnector(p.kind)
         THEN Position(prev.span.end.offset + 1 + p.col,
                       prev.span.end.line + 1, p.col)
         ELSE IF IsConnector(prev.kind)
         THEN Position(prev.span.start.offset + 10, prev.span.start.line,
                       prev.span.start.column + 4)
         ELSE Position(prev.span.end.offset + 2, prev.span.end.line,
                       prev.span.end.column + 2)

EndOf(p, start) ==
    IF IsConnector(p.kind) THEN start
    ELSE Position(start.offset + Len(p.lexeme) - 1, start.line,
                  start.column + Len(p.lexeme) - 1)

RECURSIVE LayoutFrom(_, _)
LayoutFrom(ps, acc) ==
    IF Len(acc) = Len(ps) THEN acc
    ELSE LET p == ps[Len(acc) + 1]
             s == StartOf(p, acc)
         IN LayoutFrom(ps, Append(acc, Token(p.kind, p.lexeme, Span(s, EndOf(p, s)))))

Layout(ps) == LayoutFrom(ps, <<>>)

(***************************************************************************)
(* Inputs: every token sequence of at most MaxLen tokens, and every tree   *)
(* of a file name followed by at most MaxLines connector lines.            *)
(***************************************************************************)
Cols == 1..MaxCol

Alphabet ==
    {Word("STRING", Str_word), Word("WHEN", Str_when), Word("IT", Str_it)}
    \cup {Glyph(k, c) : k \in {"TEE", "CORNER"}, c \in Cols}

AnySequences == UNION {[1..n -> Alphabet] : n \in 0..MaxLen}

\* What follows the connector on a line of a tree.
LineShapes ==
    { <<Word("WHEN", Str_when)>>,
      <<Word("WHEN", Str_when), Word("IT", Str_it)>>,
      <<Word("IT", Str_it), Word("STRING", Str_word)>> }

\* A line is drawn with TEE when a later line is its sibling, with CORNER
\* when it is the last of its level.
HasLaterSibling(cols, k) ==
    \E j \in (k + 1)..Len(cols) :
        /\ cols[j] = cols[k]
        /\ \A m \in (k + 1)..(j - 1) : cols[m] > cols[k]

RECURSIVE Flatten(_)
Flatten(ss) == IF ss = <<>> THEN <<>> ELSE Head(ss) \o Flatten(Tail(ss))

TreeOf(cols, shapes) ==
    <<Word("STRING", Str_word)>> \o
    Flatten([k \in 1..Len(cols) |->
        <<Glyph(IF HasLaterSibling(cols, k) THEN "TEE" ELSE "CORNER", cols[k])>>
        \o shapes[k]])

Trees ==
    UNION {{TreeOf(cols, shapes) : cols \in [1..n -> Cols],
                                   shapes \in [1..n -> LineShapes]}
           : n \in 0..MaxLines}

Inputs == AnySequences \cup Trees

(***************************************************************************)
(* Ast (ast::Root, Condition, Action) and parser::Error                    *)
(***************************************************************************)
Root(file_name, asts, span) ==
    [kind |-> "Root", file_name |-> file_name, asts |-> asts, span |-> span]

Condition(title, asts, span) ==
    [kind |-> "Condition", title |-> title, asts |-> asts, span |-> span]

Action(title, span) == [kind |-> "Action", title |-> title, span |-> span]

ErrorKind ==
    {"UnexpectedToken", "UnexpectedWhen", "UnexpectedIt", "UnexpectedString",
     "UnexpectedEof"}

\* The source text handed to parse beside its tokens: the lexemes, a line
\* per connector.
RECURSIVE TextOf(_)
TextOf(toks) ==
    IF toks = <<>> THEN <<>>
    ELSE LET t == toks[Len(toks)] IN
         TextOf(SubSeq(toks, 1, Len(toks) - 1))
         \o (IF Len(toks) = 1 THEN <<>>
             ELSE IF IsConnector(t.kind) THEN <<"\n">> ELSE <<Space>>)
         \o t.lexeme

Error(span, kind) == [kind |-> kind, text |-> text, span |-> span]

Ok(v) == [tag |-> "Ok", val |-> v]
Err(e) == [tag |-> "Err", err |-> e]
NoResult == [tag |-> "None"]

(***************************************************************************)
(* ParserI: the cursor                                                     *)
(***************************************************************************)
\* tokens.get(i) is Some exactly when i < tokens.len()
IsSome(i) == i < Len(tokens)
Get(i) == tokens[i + 1]

\* (mutant) a reset that leaves the cursor where the last parse stopped
reset_stale == current

\* Parser::reset: the value the cursor is set to
reset == 0

\* ParserI::current
current_token == Get(current)

\* ParserI::previous (None when the cursor is 0)
previous_is_some == current # 0 /\ IsSome(current - 1)
previous == Get(current - 1)

\* ParserI::consume: the cursor after the call, and the token returned
consume_cursor == IF current + 1 > Len(tokens) THEN current ELSE current + 1
consume_is_some == ~(current + 1 > Len(tokens)) /\ IsSome(current + 1)
consume_token == Get(current + 1)

\* tokens.last()
last == tokens[Len(tokens)]

(***************************************************************************)
(* The calls in progress.  A frame holds the locals of parse_root or of    *)
(* the connector arm of _parse: current_token (its index), title, asts.    *)
(***************************************************************************)
Frame(fn, tok, title) == [fn |-> fn, tok |-> tok, title |-> title, asts |-> <<>>]

top == stack[Len(stack)]
Pop(s) == SubSeq(s, 1, Len(s) - 1)
Push(s, f) == Append(s, f)
SetTop(s, f) == [s EXCEPT ![Len(s)] = f]

\* A call returns v to the frame below it, or to the caller of parse.
Return(v, rest) ==
    /\ result' = v
    /\ stack' = rest
    /\ pc' = IF rest = <<>> THEN "done" ELSE "ret"

Panic(why) ==
    /\ pc' = "panic"
    /\ panic' = why

discoverVars == <<modifiers, arg, ret>>

(***************************************************************************)
(* Parser::parse builds a ParserI on the text and the tokens;              *)
(* ParserI::parse resets the cursor, then calls _parse                     *)
(***************************************************************************)
Parse(input_text, input_tokens) ==
    /\ pc = "idle"
    /\ text' = input_text
    /\ tokens' = input_tokens
    /\ stack' = <<>>
    /\ result' = NoResult
    /\ pc' = "parse"
    /\ UNCHANGED <<current, panic, discoverVars>>

Reset ==
    /\ pc = "parse"
    /\ current' = reset
    /\ pc' = "call"
    /\ UNCHANGED <<text, tokens, stack, result, panic, discoverVars>>

ParseCall ==
    /\ pc = "idle"
    /\ \E ps \in Inputs : LET toks == Layout(ps) IN Parse(TextOf(toks), toks)

(***************************************************************************)
(* ParserI::_parse                                                         *)
(***************************************************************************)
\* current() is None: the error is built at tokens.last().unwrap()
ParseNoToken ==
    /\ pc = "call"
    /\ ~IsSome(current)
    /\ IF tokens = <<>>
       THEN /\ Panic("unwrap on None")
            /\ UNCHANGED <<stack, result>>
       ELSE /\ Return(Err(Error(last.span, "UnexpectedEof")), stack)
            /\ UNCHANGED panic
    /\ UNCHANGED <<text, tokens, current, discoverVars>>

\* STRING at cursor 0: parse_root consumes the file name and starts its loop
ParseRootEnter ==
    /\ pc = "call"
    /\ IsSome(current)
    /\ current_token.kind = "STRING"
    /\ current = 0
    /\ current' = consume_cursor
    /\ stack' = Push(stack, Frame("parse_root", current, <<>>))
    /\ pc' = "root_loop"
    /\ UNCHANGED <<text, tokens, result, panic, discoverVars>>

AtConnector ==
    /\ pc = "call"
    /\ IsSome(current)
    /\ IsConnector(current_token.kind)

ParseConnectorEof ==
    /\ AtConnector
    /\ ~consume_is_some
    /\ current' = consume_cursor
    /\ Return(Err(Error(last.span, "UnexpectedEof")), stack)
    /\ UNCHANGED <<text, tokens, panic, discoverVars>>

\* the IT and WHEN arms up to the first line of parse_string
ParseKeyword(kind, fn) ==
    /\ AtConnector
    /\ consume_is_some
    /\ consume_token.kind = kind
    /\ current' = consume_cursor
    /\ stack' = Push(stack, Frame(fn, current, consume_token.lexeme))
    /\ pc' = "string"
    /\ UNCHANGED <<text, tokens, result, panic, discoverVars>>

ParseIt == ParseKeyword("IT", "action")

ParseWhen == ParseKeyword("WHEN", "condition")

\* (mutant) the span of the token after the connector
FollowingTokenSpan == consume_token.span

\* the span of the error for a connector followed by neither IT nor WHEN
UnexpectedTokenSpan == current_token.span

ParseUnexpectedToken ==
    /\ AtConnector
    /\ consume_is_some
    /\ consume_token.kind \notin {"IT", "WHEN"}
    /\ current' = consume_cursor
    /\ Return(Err(Error(UnexpectedTokenSpan, "UnexpectedToken")), stack)
    /\ UNCHANGED <<text, tokens, panic, discoverVars>>

\* the last three arms of the match
ParseUnexpected(kind, error_kind) ==
    /\ pc = "call"
    /\ IsSome(current)
    /\ current_token.kind = kind
    /\ ~(kind = "STRING" /\ current = 0)
    /\ Return(Err(Error(current_token.span, error_kind)), stack)
    /\ UNCHANGED <<text, tokens, current, panic, discoverVars>>

ParseUnexpectedString == ParseUnexpected("STRING", "UnexpectedString")

ParseUnexpectedWhen == ParseUnexpected("WHEN", "UnexpectedWhen")

ParseUnexpectedIt == ParseUnexpected("IT", "UnexpectedIt")

(***************************************************************************)
(* ParserI::parse_string: one consume per turn of the loop                 *)
(***************************************************************************)
\* (mutant) a title that stops at a keyword
IsPlainWord(kind) == kind = "STRING"

IsTitleWord(kind) == kind \in {"STRING", "IT", "WHEN"}

Joined(string, lexeme) == string \o <<Space>> \o lexeme

ParseStringWord ==
    /\ pc = "string"
    /\ consume_is_some
    /\ IsTitleWord(consume_token.kind)
    /\ current' = consume_cursor
    /\ stack' = SetTop(stack,
                       [top EXCEPT !.title = Joined(@, consume_token.lexeme)])
    /\ UNCHANGED <<text, tokens, pc, result, panic, discoverVars>>

ParseStringBreak ==
    /\ pc = "string"
    /\ ~(consume_is_some /\ IsTitleWord(consume_token.kind))
    /\ current' = consume_cursor
    /\ pc' = "titled"
    /\ UNCHANGED <<text, tokens, stack, result, panic, discoverVars>>

(***************************************************************************)
(* _parse, after parse_string returned: the Action, or the Condition and   *)
(* the loop over its children                                              *)
(***************************************************************************)
\* (mutant) a span that ends at the keyword
NodeSpanToKeyword == Span(Get(top.tok).span.start, Get(top.tok + 1).span.end)

\* Span::new(current_token.span.start, previous.span.end)
NodeSpan == Span(Get(top.tok).span.start, previous.span.end)

\* self.previous().unwrap(), then Ok(node)
ReturnNode(node) ==
    /\ IF previous_is_some
       THEN /\ Return(Ok(node), Pop(stack))
            /\ UNCHANGED panic
       ELSE /\ Panic("unwrap on None")
            /\ UNCHANGED <<stack, result>>
    /\ UNCHANGED <<text, tokens, current, discoverVars>>

ActionReturn ==
    /\ pc = "titled"
    /\ top.fn = "action"
    /\ ReturnNode(Action(top.title, NodeSpan))

\* (mutant) a loop that also takes the tokens at the column of the node
IsChildOrSibling(t) == t.span.start.column >= Get(top.tok).span.start.column

\* the condition of the while loop of the WHEN arm
IsChild(t) == t.span.start.column > Get(top.tok).span.start.column

InWhenLoop ==
    /\ pc \in {"titled", "when_loop"}
    /\ top.fn = "condition"

WhenChild ==
    /\ InWhenLoop
    /\ IsSome(current) /\ IsChild(current_token)
    /\ pc' = "call"
    /\ UNCHANGED <<text, tokens, current, stack, result, panic, discoverVars>>

WhenReturn ==
    /\ InWhenLoop
    /\ ~(IsSome(current) /\ IsChild(current_token))
    /\ ReturnNode(Condition(top.title, top.asts, NodeSpan))

(***************************************************************************)
(* ParserI::parse_root                                                     *)
(***************************************************************************)
\* (mutant) a Root that takes only what is indented deeper than itself
RootLoopIndented ==
    /\ IsSome(current)
    /\ current_token.span.start.column > Get(top.tok).span.start.column

RootLoopCondition == IsSome(current)

RootChild ==
    /\ pc = "root_loop"
    /\ RootLoopCondition
    /\ pc' = "call"
    /\ UNCHANGED <<text, tokens, current, stack, result, panic, discoverVars>>

RootReturn ==
    /\ pc = "root_loop"
    /\ ~RootLoopCondition
    /\ LET file == Get(top.tok)
           last_span == IF Len(top.asts) > 0 THEN top.asts[Len(top.asts)].span
                        ELSE file.span
       IN Return(Ok(Root(file.lexeme, top.asts,
                         Span(file.span.start, last_span.end))), Pop(stack))
    /\ UNCHANGED <<text, tokens, current, panic, discoverVars>>

(***************************************************************************)
(* `let ast = self._parse()?; asts.push(ast);` in both loops               *)
(***************************************************************************)
ChildOk ==
    /\ pc = "ret"
    /\ result.tag = "Ok"
    /\ stack' = SetTop(stack, [top EXCEPT !.asts = Append(@, result.val)])
    /\ result' = NoResult
    /\ pc' = IF top.fn = "parse_root" THEN "root_loop" ELSE "when_loop"
    /\ UNCHANGED <<text, tokens, current, panic, discoverVars>>

ChildErr ==
    /\ pc = "ret"
    /\ result.tag = "Err"
    /\ Return(result, Pop(stack))
    /\ UNCHANGED <<text, tokens, current, panic, discoverVars>>

(***************************************************************************)
(* modifiers.rs: to_modifier                                               *)
(***************************************************************************)
\* char::to_uppercase on the characters the model writes
to_uppercase(c) ==
    CASE c = "a" -> "A" [] c = "e" -> "E" [] c = "h" -> "H" [] c = "i" -> "I"
      [] c = "n" -> "N" [] c = "t" -> "T" [] c = "w" -> "W" [] OTHER -> c

\* utils::capitalize_first_letter
capitalize_first_letter(s) ==
    IF s = <<>> THEN <<>> ELSE <<to_uppercase(Head(s))>> \o Tail(s)

\* str::split_whitespace: the maximal runs of non-whitespace characters
RECURSIVE SplitFrom(_, _, _, _)
SplitFrom(s, i, word, words) ==
    LET closed == IF word = <<>> THEN words ELSE Append(words, word) IN
    IF i > Len(s) THEN closed
    ELSE IF s[i] \in Whitespace THEN SplitFrom(s, i + 1, <<>>, closed)
    ELSE SplitFrom(s, i + 1, Append(word, s[i]), words)

split_whitespace(s) == SplitFrom(s, 1, <<>>, <<>>)

\* collect::<String>
RECURSIVE collect(_)
collect(ss) == IF ss = <<>> THEN <<>> ELSE Head(ss) \o collect(Tail(ss))

\* (mutant) every word capitalized, the first too
MapWordAll(idx, s) == capitalize_first_letter(s)

\* the closure of the map: idx counts from 0
MapWord(idx, s) == IF idx > 0 THEN capitalize_first_letter(s) ELSE s

to_modifier(title) ==
    LET words == split_whitespace(title) IN
    collect([k \in 1..Len(words) |-> MapWord(k - 1, words[k])])

(***************************************************************************)
(* modifiers.rs: ModifierDiscoverer                                        *)
(***************************************************************************)
\* ModifierDiscoverer::new: an empty HashMap
NewModifiers == <<>>

\* (mutant) an insert into a map emptied first
InsertAlone(m, k, v) == [x \in {k} |-> v]

\* HashMap::insert
Insert(m, k, v) == [x \in DOMAIN m \cup {k} |-> IF x = k THEN v ELSE m[x]]

visit_condition(m, condition) ==
    Insert(m, condition.title, to_modifier(condition.title))

\* (mutant) the Actions visited as well
IsVisitedAny(ast) == ast.kind \in {"Condition", "Action"}

\* `if let Ast::Condition(condition) = condition`
IsVisited(ast) == ast.kind = "Condition"

RECURSIVE VisitFrom(_, _, _)
VisitFrom(m, asts, i) ==
    IF i > Len(asts) THEN m
    ELSE VisitFrom(IF IsVisited(asts[i]) THEN visit_condition(m, asts[i]) ELSE m,
                   asts, i + 1)

visit_root(m, root) == VisitFrom(m, root.asts, 1)

\* discover on the value a parse returned
DiscoverRoot ==
    /\ pc = "done"
    /\ result.tag = "Ok"
    /\ result.val.kind = "Root"
    /\ modifiers' = visit_root(modifiers, result.val)
    /\ pc' = "discovered"
    /\ UNCHANGED <<text, tokens, current, stack, result, panic, arg, ret>>

\* the `_ => unreachable!()` arm
DiscoverNotRoot ==
    /\ pc = "done"
    /\ result.tag = "Ok"
    /\ result.val.kind # "Root"
    /\ Panic("internal error: entered unreachable code")
    /\ UNCHANGED <<text, tokens, current, stack, result, discoverVars>>

\* The caller drops the tokens, the result and the discoverer; the Parser
\* lives on with the cursor where the parse left it.
Release ==
    /\ pc \in {"done", "discovered"}
    /\ text' = <<>>
    /\ tokens' = <<>>
    /\ result' = NoResult
    /\ modifiers' = NewModifiers
    /\ pc' = "idle"
    /\ UNCHANGED <<current, stack, panic, arg, ret>>

\* a call of to_modifier on its own
ToModifierCall ==
    /\ pc = "to_modifier"
    /\ ret' = to_modifier(arg)
    /\ pc' = "returned"
    /\ UNCHANGED <<text, tokens, current, stack, result, modifiers, panic, arg>>

(***************************************************************************)
(* Specifications                                                          *)
(***************************************************************************)
\* Parser::new and ModifierDiscoverer::new
Init ==
    /\ text = <<>>
    /\ tokens = <<>>
    /\ current = 0
    /\ stack = <<>>
    /\ pc = "idle"
    /\ result = NoResult
    /\ modifiers = NewModifiers
    /\ panic = ""
    /\ arg = <<>>
    /\ ret = <<>>

Next ==
    \/ ParseCall
    \/ Reset
    \/ ParseNoToken
    \/ ParseRootEnter
    \/ ParseConnectorEof
    \/ ParseIt
    \/ ParseWhen
    \/ ParseUnexpectedToken
    \/ ParseUnexpectedString
    \/ ParseUnexpectedWhen
    \/ ParseUnexpectedIt
    \/ ParseStringWord
    \/ ParseStringBreak
    \/ ActionReturn
    \/ WhenChild
    \/ WhenReturn
    \/ RootChild
    \/ RootReturn
    \/ ChildOk
    \/ ChildErr
    \/ DiscoverRoot
    \/ DiscoverNotRoot
    \/ Release

Spec == Init /\ [][Next]_vars

\* to_modifier on every title of at most MaxTitle characters
TitleChars == {"a", "B", Space, Tab}

Titles == UNION {[1..n -> TitleChars] : n \in 0..MaxTitle}

InitModifier ==
    /\ text = <<>>
    /\ tokens = <<>>
    /\ current = 0
    /\ stack = <<>>
    /\ pc = "to_modifier"
    /\ result = NoResult
    /\ modifiers = NewModifiers
    /\ panic = ""
    /\ arg \in Titles
    /\ ret = <<>>

NextModifier == ToModifierCall

SpecModifier == InitModifier /\ [][NextModifier]_vars

(***************************************************************************)
(* What the claims speak of                                                *)
(***************************************************************************)
Returned == pc \in {"done", "discovered"}
ReturnedOk == Returned /\ result.tag = "Ok"
ReturnedErr == Returned /\ result.tag = "Err"

Children(n) == IF n.kind = "Action" THEN <<>> ELSE n.asts

\* a node and all its descendants
RECURSIVE NodesOf(_)
NodesOf(n) ==
    {n} \cup UNION {NodesOf(Children(n)[k]) : k \in 1..Len(Children(n))}

\* the token (1-based) a span starts at, and the token it ends at
FirstTok(n) ==
    CHOOSE i \in 1..Len(tokens) : tokens[i].span.start = n.span.start
LastTok(n) ==
    CHOOSE j \in 1..Len(tokens) : tokens[j].span.end = n.span.end

\* the last token of the line that the token i opens: the words after i up
\* to the next connector
RECURSIVE LineEnd(_)
LineEnd(i) ==
    IF i < Len(tokens) /\ ~IsConnector(tokens[i + 1].kind)
    THEN LineEnd(i + 1) ELSE i

\* The first violation of the grammar in token order: a connector that is
\* the last token or is followed by neither IT nor WHEN, or a word where a
\* connector is expected (the first token when it is no file name, the token
\* after the file name).
ViolationAt(i) ==
    LET t == tokens[i] IN
    IF IsConnector(t.kind)
    THEN IF i = Len(tokens) THEN "UnexpectedEof"
         ELSE IF tokens[i + 1].kind \notin {"IT", "WHEN"} THEN "UnexpectedToken"
         ELSE "none"
    ELSE IF (i = 1 /\ t.kind # "STRING") \/ (i = 2 /\ tokens[1].kind = "STRING")
    THEN CASE t.kind = "STRING" -> "UnexpectedString"
           [] t.kind = "WHEN" -> "UnexpectedWhen"
           [] t.kind = "IT" -> "UnexpectedIt"
    ELSE "none"

Violations == {i \in 1..Len(tokens) : ViolationAt(i) # "none"}

FirstViolation == CHOOSE i \in Violations : \A j \in Violations : i <= j

\* The parse of the first node reaches the last token: the sequence opens
\* with a file name, or with a connector whose node takes every later line.
ReachesLastToken ==
    \/ tokens[1].kind = "STRING"
    \/ /\ IsConnector(tokens[1].kind)
       /\ \/ Len(tokens) = 1
          \/ /\ tokens[2].kind = "WHEN"
             /\ \A i \in 2..Len(tokens) :
                    IsConnector(tokens[i].kind) =>
                        tokens[i].span.start.column > tokens[1].span.start.column

\* a token is needed and none is left
NeedsTokenAtEof ==
    \/ tokens = <<>>
    \/ /\ ReachesLastToken
       /\ Violations # {}
       /\ ViolationAt(FirstViolation) = "UnexpectedEof"

(***************************************************************************)
(* C1: whenever parse returns Ok the value is a Root, so discover never    *)
(* reaches its non-Root arm.                                               *)
(***************************************************************************)
C1_OkIsRoot ==
    /\ ReturnedOk => result.val.kind = "Root"
    /\ panic # "internal error: entered unreachable code"

(***************************************************************************)
(* C2: whenever a token is needed and none is left, parse returns the      *)
(* error UnexpectedEof with the span of the last token of the stream; the  *)
(* parse never panics.  The empty sequence is one of the cases.            *)
(***************************************************************************)
C2_EofIsAnError ==
    /\ panic # "unwrap on None"
    /\ (Returned /\ NeedsTokenAtEof) =>
            /\ result.tag = "Err"
            /\ result.err.kind = "UnexpectedEof"
            /\ result.err.span = last.span

\* the same on the sequences of at least one token
C2_EofIsAnErrorNonEmpty ==
    (Returned /\ tokens # <<>> /\ NeedsTokenAtEof) =>
        /\ panic = ""
        /\ result = Err(Error(last.span, "UnexpectedEof"))

(***************************************************************************)
(* C3: the children of a Condition whose connector is at column c are      *)
(* exactly the maximal run of nodes parsed right after its title whose     *)
(* connector is at a column greater than c; the run stops at the first     *)
(* token at a column <= c, or at the end of input, and that token is left  *)
(* for the enclosing node.  At every depth.                                *)
(***************************************************************************)
\* the nodes kids lie one after the other from the token `from` on, and
\* end at the token `to`
Tiles(kids, from, to) ==
    IF kids = <<>> THEN to = from - 1
    ELSE /\ FirstTok(kids[1]) = from
         /\ \A k \in 1..(Len(kids) - 1) :
                FirstTok(kids[k + 1]) = LastTok(kids[k]) + 1
         /\ LastTok(kids[Len(kids)]) = to

ConditionRule(n) ==
    LET c == n.span.start.column
        i == FirstTok(n)
        l == LastTok(n)
    IN /\ IsConnector(tokens[i].kind)
       /\ Tiles(n.asts, LineEnd(i) + 1, l)
       /\ \A k \in 1..Len(n.asts) :
              /\ IsConnector(tokens[FirstTok(n.asts[k])].kind)
              /\ n.asts[k].span.start.column > c
       /\ l = Len(tokens) \/ tokens[l + 1].span.start.column <= c
       /\ (l < Len(tokens) /\ result.val.kind = "Root") =>
              \E m \in NodesOf(result.val) \ NodesOf(n) : FirstTok(m) = l + 1

C3_ConditionChildren ==
    ReturnedOk =>
        \A n \in NodesOf(result.val) : n.kind = "Condition" => ConditionRule(n)

\* a Condition with children whose run was stopped by a token
C3_Witness ==
    /\ ReturnedOk
    /\ \E n \in NodesOf(result.val) :
           /\ n.kind = "Condition"
           /\ n.asts # <<>>
           /\ LastTok(n) < Len(tokens)

(***************************************************************************)
(* C4: as stated, each child of the Root starts at a column greater than   *)
(* the column of the Root (of the file-name token).                        *)
(***************************************************************************)
C4_RootChildrenIndented ==
    (ReturnedOk /\ result.val.kind = "Root") =>
        \A k \in 1..Len(result.val.asts) :
            result.val.asts[k].span.start.column
                > result.val.span.start.column

(***************************************************************************)
(* C4, amended: each child of a Condition starts at a column greater than  *)
(* the Condition's; the Root applies no column test: its children are all  *)
(* the nodes from the token after the file name to the last token,         *)
(* whatever their column.                                                  *)
(***************************************************************************)
C4_RootTakesEveryNode ==
    (ReturnedOk /\ result.val.kind = "Root") =>
        /\ Tiles(result.val.asts, 2, Len(tokens))
        /\ \A n \in NodesOf(result.val) :
               n.kind = "Condition" =>
                   \A k \in 1..Len(n.asts) :
                       n.asts[k].span.start.column > n.span.start.column

\* a Root with a child at its own column, and a Condition with a child
C4_Witness ==
    /\ ReturnedOk /\ result.val.kind = "Root"
    /\ \E k \in 1..Len(result.val.asts) :
           result.val.asts[k].span.start.column = result.val.span.start.column
    /\ \E n \in NodesOf(result.val) : n.kind = "Condition" /\ n.asts # <<>>

(***************************************************************************)
(* C5: a title is the lexeme of the keyword after the connector followed   *)
(* by the lexemes of all the STRING, IT and WHEN tokens right after it,    *)
(* joined by single spaces; parse_string stops at the first connector or   *)
(* at the end of input and leaves the cursor on it.                        *)
(***************************************************************************)
RECURSIVE JoinLexemes(_, _)
JoinLexemes(i, j) ==
    IF j <= i THEN tokens[i].lexeme
    ELSE JoinLexemes(i, j - 1) \o <<Space>> \o tokens[j].lexeme

C5_Title ==
    /\ pc = "titled" =>
           LET k == top.tok + 2 IN
           /\ tokens[k].kind \in {"IT", "WHEN"}
           /\ current >= k
           /\ \A j \in (k + 1)..current :
                  tokens[j].kind \in {"STRING", "IT", "WHEN"}
           /\ current = Len(tokens) \/ IsConnector(tokens[current + 1].kind)
           /\ top.title = JoinLexemes(k, current)
    /\ ReturnedOk =>
           \A n \in NodesOf(result.val) :
               n.kind # "Root" =>
                   n.title = JoinLexemes(FirstTok(n) + 1, LineEnd(FirstTok(n)))

\* parse_string returned a title with a keyword in it, the cursor on a
\* connector
C5_Witness ==
    /\ pc = "titled"
    /\ current < Len(tokens)
    /\ \E j \in (top.tok + 3)..current : tokens[j].kind \in {"IT", "WHEN"}

(***************************************************************************)
(* C6: when parse fails on a non-empty sequence the error is the one of    *)
(* the first violation in token order: UnexpectedToken with the span of    *)
(* the connector for a connector followed by neither IT nor WHEN,          *)
(* UnexpectedString, UnexpectedWhen or UnexpectedIt with the span of the   *)
(* word found where a connector was expected; its text is the source text. *)
(***************************************************************************)
C6_FirstViolation ==
    (ReturnedErr /\ tokens # <<>>) =>
        /\ Violations # {}
        /\ result.err.kind = ViolationAt(FirstViolation)
        /\ result.err.span = tokens[FirstViolation].span
        /\ result.err.text = text

\* UnexpectedToken at a connector with a later violation behind it
C6_Witness ==
    /\ ReturnedErr
    /\ result.err.kind = "UnexpectedToken"
    /\ Cardinality(Violations) >= 2
    /\ result.err.span # tokens[FirstViolation + 1].span

(***************************************************************************)
(* C7: the span of a node starts at the start of its first token (the file *)
(* name for the Root, the connector otherwise) and ends at the end of the  *)
(* last token consumed for it and its descendants; the span of a Root ends *)
(* at the end of the last token, and the span of a Root without children   *)
(* is the span of the file name.                                           *)
(***************************************************************************)
\* The last token of the node n when n starts at the token f and n and its
\* descendants obey the law; 0 when one of them does not.
RECURSIVE Extent(_, _)
RECURSIVE ExtentOfKids(_, _, _)
Extent(n, f) ==
    IF n.span.start # tokens[f].span.start THEN 0
    ELSE LET l == ExtentOfKids(Children(n), 1, LineEnd(f)) IN
         IF l = 0 THEN 0
         ELSE IF n.span.end # tokens[l].span.end THEN 0 ELSE l

ExtentOfKids(kids, k, prev) ==
    IF k > Len(kids) THEN prev
    ELSE IF prev + 1 > Len(tokens) THEN 0
    ELSE LET l == Extent(kids[k], prev + 1) IN
         IF l = 0 THEN 0 ELSE ExtentOfKids(kids, k + 1, l)

C7_SpanLaw ==
    ReturnedOk =>
        /\ Extent(result.val, 1) # 0
        /\ \A n \in NodesOf(result.val) :
               n.kind # "Root" => IsConnector(tokens[FirstTok(n)].kind)
        /\ result.val.kind = "Root" =>
               /\ result.val.span.start = tokens[1].span.start
               /\ result.val.span.end = last.span.end
               /\ result.val.asts = <<>> => result.val.span = tokens[1].span

\* a Root over a Condition with a child, the last title of several words
C7_Witness ==
    /\ ReturnedOk /\ result.val.kind = "Root"
    /\ \E n \in NodesOf(result.val) : n.kind = "Condition" /\ n.asts # <<>>
    /\ ~IsConnector(tokens[Len(tokens) - 1].kind)

(***************************************************************************)
(* C8: discover on a new ModifierDiscoverer and a Root returns a mapping   *)
(* whose keys are exactly the titles of the Root's immediate Condition     *)
(* children, each mapped to to_modifier of it; immediate Actions and       *)
(* nested Conditions are not recorded.                                     *)
(***************************************************************************)
TopConditionTitles(root) ==
    {root.asts[k].title :
        k \in {j \in 1..Len(root.asts) : root.asts[j].kind = "Condition"}}

RECURSIVE CamelFrom(_, _, _)
CamelFrom(title, i, seen) ==
    IF i > Len(title) THEN <<>>
    ELSE IF title[i] \in Whitespace THEN CamelFrom(title, i + 1, seen)
    ELSE LET starts_word == i = 1 \/ title[i - 1] \in Whitespace
             ch == IF starts_word /\ seen THEN to_uppercase(title[i])
                   ELSE title[i]
         IN <<ch>> \o CamelFrom(title, i + 1, TRUE)

At(r, cur) == [r |-> r, cur |-> cur]

ConsumeAt(cur) == IF cur + 1 > Len(tokens) THEN cur ELSE cur + 1

RECURSIVE StringAt(_, _)
StringAt(string, cur) ==
    LET next == ConsumeAt(cur) IN
    IF next < Len(tokens) /\ tokens[next + 1].kind \in {"STRING", "IT", "WHEN"}
    THEN StringAt(string \o <<Space>> \o tokens[next + 1].lexeme, next)
    ELSE [title |-> string, cur |-> next]

RECURSIVE ParseAt(_)
RECURSIVE WhenLoopAt(_, _, _, _)
RECURSIVE RootLoopAt(_, _)
ParseAt(cur) ==
    IF cur >= Len(tokens)
    THEN At(IF tokens = <<>> THEN [tag |-> "Panic"]
            ELSE Err(Error(last.span, "UnexpectedEof")), cur)
    ELSE LET t == tokens[cur + 1] IN
         IF t.kind = "STRING" /\ cur = 0 THEN RootLoopAt(<<>>, ConsumeAt(cur))
         ELSE IF IsConnector(t.kind)
         THEN LET next == ConsumeAt(cur) IN
              IF next >= Len(tokens)
              THEN At(Err(Error(last.span, "UnexpectedEof")), next)
              ELSE LET keyword == tokens[next + 1]
                       s == StringAt(keyword.lexeme, next)
                   IN IF keyword.kind = "IT"
                      THEN At(Ok(Action(s.title,
                                        Span(t.span.start,
                                             tokens[s.cur].span.end))), s.cur)
                      ELSE IF keyword.kind = "WHEN"
                      THEN WhenLoopAt(t, s.title, <<>>, s.cur)
                      ELSE At(Err(Error(t.span, "UnexpectedToken")), next)
         ELSE At(Err(Error(t.span,
                           CASE t.kind = "STRING" -> "UnexpectedString"
                             [] t.kind = "WHEN" -> "UnexpectedWhen"
                             [] t.kind = "IT" -> "UnexpectedIt")), cur)

WhenLoopAt(t, title, asts, cur) ==
    IF cur < Len(tokens)
       /\ tokens[cur + 1].span.start.column > t.span.start.column
    THEN LET child == ParseAt(cur) IN
         IF child.r.tag = "Ok"
         THEN WhenLoopAt(t, title, Append(asts, child.r.val), child.cur)
         ELSE child
    ELSE At(Ok(Condition(title, asts,
                         Span(t.span.start, tokens[cur].span.end))), cur)

RootLoopAt(asts, cur) ==
    IF cur < Len(tokens)
    THEN LET child == ParseAt(cur) IN
         IF child.r.tag = "Ok"
         THEN RootLoopAt(Append(asts, child.r.val), child.cur)
         ELSE child
    ELSE LET file == tokens[1]
             last_span == IF Len(asts) > 0 THEN asts[Len(asts)].span
                          ELSE file.span
         IN At(Ok(Root(file.lexeme, asts,
                       Span(file.span.start, last_span.end))), cur)

fresh_parse == ParseAt(0)

(***************************************************************************)
(* C10: every parse call sets the cursor to 0 before it reads a token;     *)
(* from then on the cursor never decreases, grows by at most one per       *)
(* consume and never exceeds the number of tokens; current() and           *)
(* previous() leave it unchanged.  So a parse on a Parser that was used    *)
(* before returns what a new Parser returns on the same input.             *)
(***************************************************************************)
C10_CursorDiscipline ==
    /\ [](pc \notin {"idle", "parse"} => current <= Len(tokens))
    /\ [](Returned => (result = fresh_parse.r /\ current = fresh_parse.cur))
    /\ [][pc = "parse" => current' = 0]_vars
    /\ [][pc # "parse" => (current' >= current /\ current' <= current + 1)]_vars
    /\ [][current' # current => pc \in {"parse", "call", "string"}]_vars

\* parse is called on a Parser whose cursor is where an earlier parse left
\* it, beyond the end of the new tokens
C10_Witness ==
    /\ pc = "parse"
    /\ tokens # <<>>
    /\ current > Len(tokens)

(***************************************************************************)
(* One ModifierDiscoverer over several Roots: the caller parses a tree     *)
(* with a new Parser, hands the Root to the discoverer it holds, drops the *)
(* tree and the Parser and keeps the discoverer.                           *)
(***************************************************************************)
TakeTree ==
    /\ pc = "idle"
    /\ \E ps \in Trees : Parse(TextOf(Layout(ps)), Layout(ps))

TakeRoot ==
    /\ pc = "parse"
    /\ result' = fresh_parse.r
    /\ current' = fresh_parse.cur
    /\ pc' = "done"
    /\ UNCHANGED <<text, tokens, stack, panic, discoverVars>>

KeepDiscoverer ==
    /\ pc = "discovered"
    /\ text' = <<>>
    /\ tokens' = <<>>
    /\ result' = NoResult
    /\ current' = 0
    /\ pc' = "idle"
    /\ UNCHANGED <<stack, panic, discoverVars>>

NextDiscover ==
    \/ TakeTree
    \/ TakeRoot
    \/ DiscoverRoot
    \/ KeepDiscoverer

SpecDiscover == Init /\ [][NextDiscover]_vars

\* what a new discoverer returns for the Root
FreshMap(root) == [t \in TopConditionTitles(root) |-> to_modifier(t)]

\* the map m with the entries of f written over it
Extended(m, f) ==
    [t \in DOMAIN m \cup DOMAIN f |-> IF t \in DOMAIN f THEN f[t] ELSE m[t]]

(***************************************************************************)
(* C11: as stated, after any earlier discover calls on the instance the    *)
(* mapping returned by discover(R) is the mapping a new discoverer returns *)
(* for R, with no entry for a title that is not an immediate Condition of  *)
(* R.                                                                      *)
(***************************************************************************)
C11_AsNewEveryTime ==
    pc = "discovered" => modifiers = FreshMap(result.val)

(***************************************************************************)
(* C11, amended: discover(R) returns the mapping the instance held before  *)
(* the call with the entries a new discoverer returns for R written over   *)
(* it; the entries of earlier Roots are never removed.  It is the mapping  *)
(* of a new discoverer when no title held before is foreign to R, so       *)
(* running discover again on the same Root yields an equal mapping.        *)
(***************************************************************************)
C11_Accumulates ==
    /\ [][(pc = "done" /\ pc' = "discovered") =>
              /\ modifiers' = Extended(modifiers, FreshMap(result.val))
              /\ (DOMAIN modifiers \subseteq TopConditionTitles(result.val)) =>
                     modifiers' = FreshMap(result.val)
              /\ modifiers = FreshMap(result.val) => modifiers' = modifiers]_vars
    /\ [][\A t \in DOMAIN modifiers :
              t \in DOMAIN modifiers' /\ modifiers'[t] = modifiers[t]]_vars

\* discover returned an entry of an earlier Root beside those of this Root
C11_Witness ==
    /\ pc = "discovered"
    /\ TopConditionTitles(result.val) # {}
    /\ \E t \in DOMAIN modifiers : t \notin TopConditionTitles(result.val)

====
